---------------------------- MODULE Spec2Model ----------------------------
(***************************************************************************)
(* The document pipeline of TeamGAPS: AgentOrchestrator drives a document  *)
(* through the stage workers (ingestor, extractor, classifier, router),    *)
(* keeps the per-stage results, derives the final status and writes it to  *)
(* the LocalStorage document record.                                       *)
(*                                                                         *)
(* All coroutines run on one asyncio event loop: a run is interleaved with *)
(* other requests only where a stage worker awaits its AI service call.    *)
(* The positions in between are steps of one run and admit no other        *)
(* request.                                                                *)
(***************************************************************************)
EXTENDS Naturals, Sequences, FiniteSets, TLC

VARIABLES
    agent_impl,        \* what self.ingestor .. self.router are bound to
    pipeline_conf,     \* storage: pipeline.json, the value of key "pipeline"
    documents,         \* storage: documents.json, doc id -> record
    pc,                \* position of the (single) orchestrator call
    op,                \* "process" or "reprocess"
    from_agent,        \* the from_agent argument of reprocess_document
    pipeline,          \* the list get_pipeline() returned to this call
    idx,               \* 1-based position of the loop in pipeline
    current_document,  \* the call's in-memory snapshot of the document
    results,           \* the call's results dict: agent name -> result
    invoked,           \* history: agent names whose worker this call invoked
    returned,          \* history: what each of those invocations produced
    ret,               \* what the call returned to its caller (<<>>: nothing yet)
    runs,              \* concurrent calls: run id -> the locals of that call
    events,            \* storage: events.json, doc id -> list of events
    stats,             \* what get_pipeline_statistics returned, if it was called
    status_reply,      \* what get_processing_status returned, if it was called
    logfile,           \* storage: one append log (a JSON file), key -> entries
    threads            \* the threadpool threads inside an append operation

vars == <<agent_impl, pipeline_conf, documents, pc, op, from_agent, pipeline, idx,
          current_document, results, invoked, returned, ret, runs, events,
          stats, status_reply, logfile, threads>>

\* the replies of the read-only queries and the append logs with the threads
\* that write them
queryvars == <<stats, status_reply, logfile, threads>>

\* what the specifications of a single call leave alone
tworunvars == <<runs, events>>

runvars == <<op, from_agent, pipeline, idx, current_document, results, invoked,
             returned, ret>>

-----------------------------------------------------------------------------
(* Bounds *)

\* longest configured pipeline list that is saved to pipeline.json
MaxConfLen == 2

\* longest configured pipeline list that get_pipeline is applied to on its own
MaxListLen == 3

\* documents in the stores the statistics are taken over
MaxDocs == 3

\* events in the trails the status query is answered from
MaxEvents == 3

\* threads that append to the same log file at the same time
MaxThreads == 3

-----------------------------------------------------------------------------
(* Names and values *)

DocId == "D1"

AgentNames == {"ingestor", "extractor", "classifier", "router"}

\* a configured step may name an agent that agent_map does not know
StepNames == AgentNames \cup {"archiver"}

NoAgent == "None"

NoError == ""

\* the StageResult fields the orchestrator reads; a key that is absent from the
\* Python dict reads as None, which is modelled by FALSE / NoAgent / NoError
Result(st, na, nr, rs, err) ==
    [status |-> st, next_agent |-> na, needs_review |-> nr,
     routing_success |-> rs, error |-> err]

EmptyResults == <<>>

\* results[agent_name] = result
Put(map, name, r) ==
    [n \in (DOMAIN map) \cup {name} |-> IF n = name THEN r ELSE map[n]]

-----------------------------------------------------------------------------
(* LocalStorage *)

HasDocument(docs, id) == id \in DOMAIN docs

NoneDocument == [present |-> FALSE, status |-> "None"]

\* get_document: the stored record, or None
GetDocument(docs, id) ==
    IF HasDocument(docs, id)
    THEN [present |-> TRUE, status |-> docs[id].status]
    ELSE NoneDocument

\* create_document: a fresh record with status "uploaded"
CreateDocument(docs, id) ==
    [d \in (DOMAIN docs) \cup {id} |->
        IF d = id
        THEN [status |-> "uploaded", has_results |-> FALSE,
              agent_results |-> EmptyResults]
        ELSE docs[d]]

\* faulty variant: the update does not reach the file that get_document reads
UpdateStatus_Lost(docs, id, status) == docs

\* faulty variant: the file is written back with the updated record only
UpdateStatus_DropsOthers(docs, id, status) ==
    IF HasDocument(docs, id)
    THEN [d \in {id} |-> [docs[id] EXCEPT !.status = status]]
    ELSE docs

\* update_document with {"status": status}: nothing is written for a missing id
UpdateStatus(docs, id, status) ==
    IF HasDocument(docs, id)
    THEN [docs EXCEPT ![id].status = status]
    ELSE docs

\* faulty variant: the results are stored, the status is left as the last
\* stage wrote it
UpdateFinal_StatusKept(docs, id, status, res) ==
    IF HasDocument(docs, id)
    THEN [docs EXCEPT ![id].has_results = TRUE, ![id].agent_results = res]
    ELSE docs

\* faulty variant: the stored results of stages that are not in the new map
\* are kept
UpdateFinal_Merge(docs, id, status, res) ==
    IF HasDocument(docs, id)
    THEN [docs EXCEPT ![id] =
            [status |-> status, has_results |-> TRUE,
             agent_results |->
                [n \in (DOMAIN @.agent_results) \cup (DOMAIN res) |->
                    IF n \in DOMAIN res THEN res[n] ELSE @.agent_results[n]]]]
    ELSE docs

\* update_document with {"status": .., "agent_results": ..}
UpdateFinal(docs, id, status, res) ==
    IF HasDocument(docs, id)
    THEN [docs EXCEPT ![id] = [status |-> status, has_results |-> TRUE,
                               agent_results |-> res]]
    ELSE docs

\* delete_document
DeleteDocument(docs, id) == [d \in (DOMAIN docs) \ {id} |-> docs[d]]

\* the canonical statuses of a document
CanonicalStatuses ==
    {"uploaded", "ingested", "extracted", "classified", "needs_review",
     "routed", "routing_failed", "failed"}

\* the ids create_document hands out (uuid4: never the same id twice)
DocIds == {DocId, "D2"}

\* an event as far as it is read: the worker that logged it and its type
Event(name, type) == [agent_name |-> name, event_type |-> type]

\* events.json when it is created; a doc id without a key reads as []
NoEvents == [d \in DocIds |-> <<>>]

\* faulty variant: the event replaces the list of the document
CreateEvent_Overwrites(evts, id, ev) == [evts EXCEPT ![id] = <<ev>>]

\* create_event: append to the list of the doc id, whether or not a document
\* with that id is stored
CreateEvent(evts, id, ev) == [evts EXCEPT ![id] = Append(@, ev)]

\* delete_document, second half: the events of the document go with it
DeleteEvents(evts, id) == [evts EXCEPT ![id] = <<>>]


-----------------------------------------------------------------------------
(* AgentOrchestrator.get_pipeline *)

Step(n, st) == [name |-> n, status |-> st]

\* self._default_pipeline
DefaultPipeline ==
    << Step("ingestor", "uploaded"), Step("extractor", "ingested"),
       Step("classifier", "extracted"), Step("router", "classified") >>

\* the value stored under "pipeline": a list of steps, or something that is
\* not a list (None when the key is missing, or any other JSON value)
ListConf(steps) == [is_list |-> TRUE, steps |-> steps]

NotAListConf == [is_list |-> FALSE, steps |-> <<>>]

\* _init_storage_files writes {"pipeline": []}
InitialConf == ListConf(<<>>)

\* a configured step that has no "name" key (or is no dict at all): reading
\* step["name"] raises
MissingName == "<missing>"

\* get_pipeline raises out of its list comprehension
GetPipelineRaises(conf) ==
    /\ conf.is_list
    /\ \E i \in 1..Len(conf.steps) : conf.steps[i].name = MissingName

\* faulty variant: a list that names an unknown stage is rejected as a whole
GetPipeline_DefaultOnUnknown(conf) ==
    IF /\ conf.is_list
       /\ Len(conf.steps) > 0
       /\ \A i \in 1..Len(conf.steps) : conf.steps[i].name \in AgentNames
    THEN conf.steps
    ELSE DefaultPipeline

\* pipeline_conf is truthy and a list: keep the steps agent_map knows, in order
GetPipeline(conf) ==
    IF conf.is_list /\ Len(conf.steps) > 0
    THEN SelectSeq(conf.steps, LAMBDA s : s.name \in AgentNames)
    ELSE DefaultPipeline

-----------------------------------------------------------------------------
(* AgentOrchestrator._determine_final_status *)

HasSuccess(res, name) == name \in DOMAIN res /\ res[name].status = "success"

\* faulty variant: the classifier branch is tried before the router branch
DetermineFinalStatus_ClassifierFirst(res) ==
    IF DOMAIN res = {} THEN "failed"
    ELSE IF \E n \in DOMAIN res : res[n].status = "error" THEN "failed"
    ELSE IF HasSuccess(res, "classifier")
         THEN IF res["classifier"].needs_review THEN "needs_review" ELSE "classified"
    ELSE IF HasSuccess(res, "router")
         THEN IF res["router"].routing_success THEN "routed" ELSE "routing_failed"
    ELSE IF HasSuccess(res, "extractor") THEN "extracted"
    ELSE IF HasSuccess(res, "ingestor") THEN "ingested"
    ELSE "failed"

\* faulty variant: the scan for an errored stage is missing
DetermineFinalStatus_NoErrorScan(res) ==
    IF DOMAIN res = {} THEN "failed"
    ELSE IF HasSuccess(res, "router")
         THEN IF res["router"].routing_success THEN "routed" ELSE "routing_failed"
    ELSE IF HasSuccess(res, "classifier")
         THEN IF res["classifier"].needs_review THEN "needs_review" ELSE "classified"
    ELSE IF HasSuccess(res, "extractor") THEN "extracted"
    ELSE IF HasSuccess(res, "ingestor") THEN "ingested"
    ELSE "failed"

DetermineFinalStatus(res) ==
    IF DOMAIN res = {} THEN "failed"
    ELSE IF \E n \in DOMAIN res : res[n].status = "error" THEN "failed"
    ELSE IF HasSuccess(res, "router")
         THEN IF res["router"].routing_success THEN "routed" ELSE "routing_failed"
    ELSE IF HasSuccess(res, "classifier")
         THEN IF res["classifier"].needs_review THEN "needs_review" ELSE "classified"
    ELSE IF HasSuccess(res, "extractor") THEN "extracted"
    ELSE IF HasSuccess(res, "ingestor") THEN "ingested"
    ELSE "failed"

\* faulty variant: the list of _calculate_success_rate is used for "success"
IsSuccess_Statistics(final_status) == final_status \in {"routed", "completed", "classified"}

\* "success": final_status in ["routed", "completed", "needs_review"]
IsSuccess(final_status) == final_status \in {"routed", "completed", "needs_review"}

\* the aggregate a call returns after its loop
Aggregate(final_status, res) ==
    [final_status |-> final_status, results |-> res, has_results |-> TRUE,
     success |-> IsSuccess(final_status)]

\* faulty variant: the outermost except answers with the aggregate of an
\* empty run
FailureEnvelope_Aggregate ==
    [final_status |-> "failed", results |-> EmptyResults, has_results |-> TRUE,
     success |-> FALSE]

\* the envelope of the outermost except: no "results" key
FailureEnvelope ==
    [final_status |-> "failed", results |-> EmptyResults, has_results |-> FALSE,
     success |-> FALSE]

\* the result the per-stage except records for a worker that raised
ErrorResult(msg) == Result("error", NoAgent, FALSE, FALSE, msg)

-----------------------------------------------------------------------------
(* Stage workers *)

\* messages of the exceptions a worker raises
InvalidDocument == "Invalid document"

ServiceError == "AI service error"

\* what an invocation that got past validation ends with: a returned result or
\* a raised exception, and the status the worker wrote to the store on the way
\* ("" when it wrote none)
Returns(r, written) == [raised |-> FALSE, result |-> r, error |-> NoError, writes |-> written]

\* except: log_event "failed", update_document_status(document, "failed"), raise
Raises(msg) ==
    [raised |-> TRUE, result |-> ErrorResult(msg), error |-> msg, writes |-> "failed"]

\* IngestorAgent.validate_input: filename, file on disk, file size
IngestorValid(doc, fields_ok) == doc.present /\ fields_ok

\* faulty variant: the ingestor names the classifier as the next agent
IngestorOutcomes_NamesClassifier ==
    { Returns(Result("success", "classifier", FALSE, FALSE, NoError), "ingested"),
      Raises(ServiceError) }

\* IngestorAgent.process after validation
IngestorOutcomes ==
    { Returns(Result("success", "extractor", FALSE, FALSE, NoError), "ingested"),
      Raises(ServiceError) }

\* ClassifierAgent.validate_input: filename, status, extracted text
ClassifierValid(doc, fields_ok) ==
    /\ doc.present
    /\ doc.status \in {"extracted", "classified", "needs_review"}
    /\ fields_ok

\* ClassifierAgent.process after validation; needs_review comes from the
\* classification the AI service returns
ClassifierOutcome(needs_review) ==
    Returns(Result("success", "router", needs_review, FALSE, NoError),
            IF needs_review THEN "needs_review" ELSE "classified")

ClassifierOutcomes ==
    { ClassifierOutcome(nr) : nr \in BOOLEAN } \cup { Raises(ServiceError) }

\* RouterAgent.validate_input: filename, status, document type
RouterValid(doc, fields_ok) ==
    /\ doc.present
    /\ doc.status \in {"classified", "routed", "needs_review"}
    /\ fields_ok

\* the fallback logic: a second _perform_routing only after a failed first one
\* and only against a different destination
RoutingSuccess(primary_ok, fallback_differs, fallback_ok) ==
    primary_ok \/ (fallback_differs /\ fallback_ok)

\* faulty variant: the fallback is tried after every failed first attempt
RoutingAttempts_AlwaysFallback(primary_ok, fallback_differs) ==
    IF ~primary_ok THEN <<"primary", "fallback">> ELSE <<"primary">>

\* the calls of _perform_routing in one invocation, by their destination
RoutingAttempts(primary_ok, fallback_differs) ==
    IF ~primary_ok /\ fallback_differs
    THEN <<"primary", "fallback">>
    ELSE <<"primary">>

\* RouterAgent.process after validation
RouterOutcome(routing_success) ==
    Returns(Result(IF routing_success THEN "success" ELSE "failed",
                   NoAgent, FALSE, routing_success, NoError),
            IF routing_success THEN "routed" ELSE "routing_failed")

RouterOutcomes ==
    { RouterOutcome(RoutingSuccess(p, d, f)) : p \in BOOLEAN, d \in BOOLEAN, f \in BOOLEAN }
        \cup { Raises(ServiceError) }

\* ExtractorAgent is not among the sources: it is taken to follow the other
\* workers (status "extracted" on success, "failed" on an exception) and the
\* default pipeline (next agent: classifier)
ExtractorValid(doc, fields_ok) == doc.present /\ fields_ok

ExtractorOutcomes ==
    { Returns(Result("success", "classifier", FALSE, FALSE, NoError), "extracted"),
      Raises(ServiceError) }

\* validate_input of the worker bound to the name
AgentValid(name, doc, fields_ok) ==
    CASE name = "ingestor" -> IngestorValid(doc, fields_ok)
      [] name = "extractor" -> ExtractorValid(doc, fields_ok)
      [] name = "classifier" -> ClassifierValid(doc, fields_ok)
      [] name = "router" -> RouterValid(doc, fields_ok)

AgentOutcomes(name) ==
    CASE name = "ingestor" -> IngestorOutcomes
      [] name = "extractor" -> ExtractorOutcomes
      [] name = "classifier" -> ClassifierOutcomes
      [] name = "router" -> RouterOutcomes

\* The orchestrator reads only status, next_agent, needs_review and
\* routing_success of what agent.process returns.  A test double bound in place
\* of a worker may return any such result, or raise; it writes nothing.
DefaultNext(name) ==
    CASE name = "ingestor" -> "extractor"
      [] name = "extractor" -> "classifier"
      [] name = "classifier" -> "router"
      [] name = "router" -> "archiver"

DoubleOutcomes(name) ==
    { Returns(Result("success", na, nr, rs, NoError), "") :
        na \in {NoAgent, DefaultNext(name)},
        nr \in IF name = "classifier" THEN BOOLEAN ELSE {FALSE},
        rs \in IF name = "router" THEN BOOLEAN ELSE {FALSE} }
    \cup { Returns(Result(st, na, FALSE, FALSE, NoError), "") :
             st \in {"failed", "error"}, na \in {NoAgent, DefaultNext(name)} }
    \cup { [raised |-> TRUE, result |-> ErrorResult(ServiceError),
            error |-> ServiceError, writes |-> ""] }

\* one invocation that got past validation, in full: its outcome and, for the
\* router, what _perform_routing answered (primary attempt, whether the
\* fallback destination differs, fallback attempt) and the attempts made
WorkerRuns(name) ==
    IF name = "router"
    THEN { [outcome |-> RouterOutcome(RoutingSuccess(p, d, f)),
            routing |-> <<p, d, f>>,
            attempts |-> RoutingAttempts(p, d)] :
              p \in BOOLEAN, d \in BOOLEAN, f \in BOOLEAN }
         \cup { [outcome |-> Raises(ServiceError), routing |-> <<>>, attempts |-> <<>>] }
    ELSE { [outcome |-> c, routing |-> <<>>, attempts |-> <<>>] : c \in AgentOutcomes(name) }

\* faulty variant: the except clause logs "completed" as well
ClosingEvent_AlwaysCompleted(raised) == "completed"

\* the event a worker logs last: "completed" before it returns, "failed" in
\* its except clause before it re-raises
ClosingEvent(raised) == IF raised THEN "failed" ELSE "completed"

\* log_event(document, type, ..): create_event under document["id"]; with
\* document None the lookup raises inside log_event, which swallows it
LogEvent(evts, id, doc, name, type) ==
    IF doc.present THEN CreateEvent(evts, id, Event(name, type)) ELSE evts

-----------------------------------------------------------------------------
(* AgentOrchestrator.process_document / reprocess_document *)

\* the precondition check of process_document: the snapshot is not in the
\* status the entry of the pipeline requires
StatusMismatch(doc, step) == doc.status # step.status

\* faulty variant: a strict pipeline, which hands the worker only a document
\* that is in the required status
Accepts_Strict(impl, step, doc, fields_ok) ==
    /\ ~StatusMismatch(doc, step)
    /\ impl = "doubles" \/ AgentValid(step.name, doc, fields_ok)

\* agent.process(current_document) gets to its AI service call: the mismatch
\* is only logged, so this is up to the validate_input of the worker bound to
\* the entry
Accepts(impl, step, doc, fields_ok) ==
    impl = "doubles" \/ AgentValid(step.name, doc, fields_ok)

\* faulty variant: the classifier is always followed by the next entry
ProcessContinues_AlwaysForced(agent_name, result) ==
    /\ result.status = "success"
    /\ \/ result.next_agent # NoAgent
       \/ agent_name = "classifier"

\* faulty variant: a missing next agent does not end the loop
ProcessContinues_NoEndCheck(agent_name, result) == result.status = "success"

\* faulty variant: the loop goes on after a stage that did not succeed
ProcessContinues_AfterFailure(agent_name, result) ==
    \/ result.next_agent # NoAgent
    \/ agent_name = "classifier" /\ result.needs_review

\* faulty variant: no special handling of the classifier
ProcessContinues_NoForce(agent_name, result) ==
    /\ result.status = "success"
    /\ result.next_agent # NoAgent

\* process_document, after a worker returned: does the loop go on to the next
\* entry of the pipeline (before the document is re-fetched)?
ProcessContinues(agent_name, result) ==
    /\ result.status = "success"
    /\ \/ result.next_agent # NoAgent
       \/ agent_name = "classifier" /\ result.needs_review

\* faulty variant: the status of the result is not looked at
ReprocessContinues_NoStatusCheck(agent_name, result) == result.next_agent # NoAgent

\* reprocess_document, after a worker returned
ReprocessContinues(agent_name, result) ==
    /\ result.status = "success"
    /\ result.next_agent # NoAgent

Continues(o, agent_name, result) ==
    IF o = "process" THEN ProcessContinues(agent_name, result)
    ELSE ReprocessContinues(agent_name, result)

\* faulty variant: the re-fetched document is not looked at
StopsOnMissing_Never(o, doc) == FALSE

\* process_document stops on a document that is missing after the re-fetch;
\* reprocess_document goes on with None
StopsOnMissing(o, doc) == o = "process" /\ ~doc.present

\* faulty variant: a name that is not in the pipeline selects the last entry
StartIndex_LastOnUnknown(pl, name) ==
    IF \E i \in 1..Len(pl) : pl[i].name = name
    THEN (CHOOSE i \in 1..Len(pl) :
             /\ pl[i].name = name
             /\ \A j \in 1..(i - 1) : pl[j].name # name) - 1
    ELSE IF Len(pl) > 0 THEN Len(pl) - 1 ELSE 0

\* reprocess_document: the 0-based index of the first entry with the name
\* from_agent gives, 0 when there is none
StartIndex(pl, name) ==
    IF \E i \in 1..Len(pl) : pl[i].name = name
    THEN (CHOOSE i \in 1..Len(pl) :
             /\ pl[i].name = name
             /\ \A j \in 1..(i - 1) : pl[j].name # name) - 1
    ELSE 0

\* faulty variant: the first stage is reset to a status of its own
ResetStatus_Pending(start_index) ==
    CASE start_index = 0 -> "pending"
      [] start_index = 1 -> "ingested"
      [] start_index = 2 -> "extracted"
      [] start_index = 3 -> "classified"
      [] OTHER -> "pending"

\* faulty variant: the table of statuses is shifted by one stage
ResetStatus_Shifted(start_index) ==
    CASE start_index = 0 -> "uploaded"
      [] start_index = 1 -> "uploaded"
      [] start_index = 2 -> "ingested"
      [] start_index = 3 -> "extracted"
      [] OTHER -> "uploaded"

\* status_mapping.get(start_index, "uploaded")
ResetStatus(start_index) ==
    CASE start_index = 0 -> "uploaded"
      [] start_index = 1 -> "ingested"
      [] start_index = 2 -> "extracted"
      [] start_index = 3 -> "classified"
      [] OTHER -> "uploaded"

\* what the reprocess endpoint may pass as from_agent
FromAgents == StepNames \cup {NoAgent}

\* the lists an administrator may save as the pipeline configuration
StepChoices ==
    { Step("ingestor", "uploaded"), Step("extractor", "ingested"),
      Step("classifier", "extracted"), Step("router", "classified"),
      Step("archiver", "routed"), Step(MissingName, "") }

SeqsUpTo(S, n) == UNION { [1..k -> S] : k \in 0..n }

PipelineConfs == { ListConf(s) : s \in SeqsUpTo(StepChoices, MaxConfLen) } \cup {NotAListConf}

\* what pipeline.json may hold under "pipeline"
StoredConfs ==
    { ListConf(st) : st \in SeqsUpTo(StepChoices, MaxListLen) } \cup {NotAListConf}

\* the calls that run concurrently on the event loop
RunIds == {"r1", "r2"}

NoDoc == "None"

\* the locals of a call that has not started
IdleRun ==
    [pc |-> "none", op |-> "none", doc |-> NoDoc, idx |-> 0,
     current_document |-> NoneDocument, results |-> EmptyResults,
     invoked |-> <<>>, returned |-> <<>>, ret |-> <<>>,
     routing |-> <<>>, attempts |-> <<>>, order |-> 0,
            notified |-> <<>>]

NoRuns == [r \in RunIds |-> IdleRun]

\* the shape of the state: the store's files and the locals of the call
TypeOK ==
    /\ agent_impl \in {"agents", "doubles"}
    /\ pipeline_conf \in PipelineConfs \cup StoredConfs
    /\ DOMAIN documents \subseteq DocIds
    /\ \A d \in DOMAIN documents :
        /\ documents[d].status \in
             {"uploaded", "ingested", "extracted", "classified", "needs_review",
              "routed", "routing_failed", "failed"}
        /\ documents[d].has_results \in BOOLEAN
        /\ DOMAIN documents[d].agent_results \subseteq AgentNames
    /\ pc \in {"idle", "scheduled", "loop", "awaiting", "finalize", "done",
               "derive", "derived", "read", "returned", "raised"}
    /\ op \in {"none", "process", "reprocess"}
    /\ from_agent \in FromAgents
    /\ \A i \in 1..Len(pipeline) : pipeline[i].name \in AgentNames
    /\ idx \in 0..(Len(pipeline) + 1)
    /\ current_document.present \in BOOLEAN
    /\ DOMAIN results \subseteq AgentNames
    /\ Len(invoked) <= Len(pipeline)
    /\ Len(returned) \in {Len(invoked), Len(invoked) - 1}
    /\ Len(ret) <= 1
    /\ DOMAIN runs = RunIds
    /\ \A r \in RunIds :
        /\ runs[r].pc \in {"none", "scheduled", "loop", "awaiting", "finalize", "done"}
        /\ runs[r].doc \in DocIds \cup {NoDoc}
        /\ Len(runs[r].attempts) <= 2
        /\ Len(runs[r].notified) <= 1
    /\ DOMAIN events = DocIds
    /\ Len(stats) <= 1
    /\ Len(status_reply) <= 1
    /\ Len(logfile) <= MaxThreads
    /\ Len(threads) <= MaxThreads

Idle == pc \in {"idle", "done"}

\* the event loop runs another request only where the call is suspended
Suspended == pc \in {"scheduled", "awaiting", "done"}

\* no query has been answered, the append log is empty and no thread is
\* inside an append operation
NoThreads == <<>>

QueriesIdle ==
    /\ stats = <<>>
    /\ status_reply = <<>>
    /\ logfile = <<>>
    /\ threads = NoThreads

Init ==
    /\ agent_impl \in {"agents", "doubles"}
    /\ pipeline_conf = InitialConf
    /\ documents = <<>>
    /\ pc = "idle"
    /\ op = "none"
    /\ from_agent = NoAgent
    /\ pipeline = <<>>
    /\ idx = 0
    /\ current_document = NoneDocument
    /\ results = EmptyResults
    /\ invoked = <<>>
    /\ returned = <<>>
    /\ ret = <<>>
    /\ runs = NoRuns
    /\ events = NoEvents
    /\ QueriesIdle

\* save_pipeline (the pipeline configuration endpoint); the configuration is
\* set before the document is uploaded
SavePipeline ==
    /\ pc = "idle"
    /\ \E conf \in PipelineConfs : pipeline_conf' = conf
    /\ UNCHANGED <<agent_impl, documents, pc>>
    /\ UNCHANGED runvars
    /\ UNCHANGED tworunvars
    /\ UNCHANGED queryvars

\* upload_document: create the record and queue the background task
UploadDocument ==
    /\ pc = "idle"
    /\ documents' = CreateDocument(documents, DocId)
    /\ pc' = "scheduled"
    /\ UNCHANGED <<agent_impl, pipeline_conf>>
    /\ UNCHANGED runvars
    /\ UNCHANGED tworunvars
    /\ UNCHANGED queryvars

\* delete_document (DELETE endpoint)
Delete ==
    /\ Suspended
    /\ HasDocument(documents, DocId)
    /\ documents' = DeleteDocument(documents, DocId)
    /\ UNCHANGED <<agent_impl, pipeline_conf, pc>>
    /\ UNCHANGED runvars
    /\ UNCHANGED tworunvars
    /\ UNCHANGED queryvars

\* process_document_background: nothing to do for a missing document; else
\* process_document up to its loop, or through its outermost except when
\* get_pipeline raises
ProcessDocument ==
    /\ pc = "scheduled"
    /\ IF HasDocument(documents, DocId)
       THEN /\ op' = "process"
            /\ from_agent' = NoAgent
            /\ current_document' = GetDocument(documents, DocId)
            /\ results' = EmptyResults
            /\ invoked' = <<>>
            /\ returned' = <<>>
            /\ IF GetPipelineRaises(pipeline_conf)
               THEN /\ pipeline' = <<>>
                    /\ idx' = 0
                    /\ ret' = << FailureEnvelope >>
                    /\ pc' = "done"
               ELSE /\ pipeline' = GetPipeline(pipeline_conf)
                    /\ idx' = 1
                    /\ ret' = <<>>
                    /\ pc' = "loop"
       ELSE /\ pc' = "done"
            /\ UNCHANGED runvars
    /\ UNCHANGED <<agent_impl, pipeline_conf, documents>>
    /\ UNCHANGED tworunvars
    /\ UNCHANGED queryvars

\* the reprocess endpoint (404 for a missing document), then
\* reprocess_document up to its loop.  get_pipeline is read for the start
\* index only when a from_agent is given, and again for the loop after the
\* status reset: when it raises, the outermost except returns the envelope,
\* before the reset in the first case and after it in the second
ReprocessDocument ==
    /\ pc = "done"
    /\ HasDocument(documents, DocId)
    /\ \E fa \in FromAgents :
        /\ from_agent' = fa
        /\ op' = "reprocess"
        /\ results' = EmptyResults
        /\ invoked' = <<>>
        /\ returned' = <<>>
        /\ IF GetPipelineRaises(pipeline_conf)
           THEN LET docs == IF fa = NoAgent
                            THEN UpdateStatus(documents, DocId, ResetStatus(0))
                            ELSE documents
                IN /\ documents' = docs
                   /\ current_document' = IF fa = NoAgent THEN GetDocument(docs, DocId)
                                          ELSE NoneDocument
                   /\ pipeline' = <<>>
                   /\ idx' = 0
                   /\ ret' = << FailureEnvelope >>
                   /\ pc' = "done"
           ELSE LET pl == GetPipeline(pipeline_conf)
                    start_index == IF fa = NoAgent THEN 0 ELSE StartIndex(pl, fa)
                    docs == UpdateStatus(documents, DocId, ResetStatus(start_index))
                IN /\ documents' = docs
                   /\ current_document' = GetDocument(docs, DocId)
                   /\ pipeline' = pl
                   /\ idx' = start_index + 1
                   /\ ret' = <<>>
                   /\ pc' = "loop"
    /\ UNCHANGED <<agent_impl, pipeline_conf>>
    /\ UNCHANGED tworunvars
    /\ UNCHANGED queryvars

\* the for loop has no entry left
LoopEnds ==
    /\ pc = "loop"
    /\ idx > Len(pipeline)
    /\ pc' = "finalize"
    /\ UNCHANGED <<agent_impl, pipeline_conf, documents>>
    /\ UNCHANGED runvars
    /\ UNCHANGED tworunvars
    /\ UNCHANGED queryvars

\* one iteration, up to the worker's await of the AI service: agent.process is
\* called on the snapshot; a worker that rejects its input raises at once, and
\* the per-stage except records the error and breaks
InvokeAgent ==
    /\ pc = "loop"
    /\ idx <= Len(pipeline)
    /\ LET agent_name == pipeline[idx].name IN
       /\ invoked' = Append(invoked, agent_name)
       /\ \E fields_ok \in BOOLEAN :
            IF Accepts(agent_impl, pipeline[idx], current_document, fields_ok)
            THEN /\ pc' = "awaiting"
                 /\ UNCHANGED <<documents, results, returned>>
            ELSE /\ documents' = IF current_document.present
                                 THEN UpdateStatus(documents, DocId, "failed")
                                 ELSE documents
                 /\ results' = Put(results, agent_name, ErrorResult(InvalidDocument))
                 /\ returned' = Append(returned, ErrorResult(InvalidDocument))
                 /\ pc' = "finalize"
    /\ UNCHANGED <<agent_impl, pipeline_conf, op, from_agent, pipeline, idx,
                   current_document, ret>>
    /\ UNCHANGED tworunvars
    /\ UNCHANGED queryvars

\* the worker resumes and returns or raises; the orchestrator records the
\* result, decides whether to go on and re-fetches the document
AgentReturns ==
    /\ pc = "awaiting"
    /\ LET agent_name == pipeline[idx].name IN
       \E c \in IF agent_impl = "doubles" THEN DoubleOutcomes(agent_name)
                ELSE AgentOutcomes(agent_name) :
         LET result == IF c.raised THEN ErrorResult(c.error) ELSE c.result
             docs == IF c.writes = "" THEN documents
                     ELSE UpdateStatus(documents, DocId, c.writes)
             fetched == GetDocument(docs, DocId)
         IN /\ documents' = docs
            /\ results' = Put(results, agent_name, result)
            /\ returned' = Append(returned, result)
            /\ IF ~c.raised /\ Continues(op, agent_name, result)
               THEN /\ current_document' = fetched
                    /\ IF StopsOnMissing(op, fetched)
                       THEN pc' = "finalize" /\ idx' = idx
                       ELSE pc' = "loop" /\ idx' = idx + 1
               ELSE /\ pc' = "finalize"
                    /\ UNCHANGED <<current_document, idx>>
    /\ UNCHANGED <<agent_impl, pipeline_conf, op, from_agent, pipeline, invoked, ret>>
    /\ UNCHANGED tworunvars
    /\ UNCHANGED queryvars

\* after the loop: derive the final status, write it with the results, return
Finish ==
    /\ pc = "finalize"
    /\ LET final_status == DetermineFinalStatus(results) IN
       /\ documents' = UpdateFinal(documents, DocId, final_status, results)
       /\ ret' = << Aggregate(final_status, results) >>
    /\ pc' = "done"
    /\ UNCHANGED <<agent_impl, pipeline_conf, op, from_agent, pipeline, idx,
                   current_document, results, invoked, returned>>
    /\ UNCHANGED tworunvars
    /\ UNCHANGED queryvars

Next ==
    \/ SavePipeline
    \/ UploadDocument
    \/ Delete
    \/ ProcessDocument
    \/ ReprocessDocument
    \/ LoopEnds
    \/ InvokeAgent
    \/ AgentReturns
    \/ Finish

Spec == Init /\ [][Next]_vars

-----------------------------------------------------------------------------
(* _determine_final_status on its own, over all results maps *)

\* the statuses a result may carry: "success", "error", or anything else
ResultStatuses == {"success", "failed", "error"}

\* results as far as _determine_final_status reads them
StageResults ==
    { Result(st, NoAgent, nr, rs, NoError) :
        st \in ResultStatuses, nr \in BOOLEAN, rs \in BOOLEAN }

\* every dict over the four agent names
ResultMaps == UNION { [names -> StageResults] : names \in SUBSET AgentNames }

InitStatus ==
    /\ agent_impl = "doubles"
    /\ pipeline_conf = InitialConf
    /\ documents = <<>>
    /\ pc = "derive"
    /\ op = "none"
    /\ from_agent = NoAgent
    /\ pipeline = <<>>
    /\ idx = 0
    /\ current_document = NoneDocument
    /\ results \in ResultMaps
    /\ invoked = <<>>
    /\ returned = <<>>
    /\ ret = <<>>
    /\ runs = NoRuns
    /\ events = NoEvents
    /\ QueriesIdle

\* final_status = self._determine_final_status(results)
DeriveStatus ==
    /\ pc = "derive"
    /\ ret' = << Aggregate(DetermineFinalStatus(results), results) >>
    /\ pc' = "derived"
    /\ UNCHANGED <<agent_impl, pipeline_conf, documents, op, from_agent, pipeline,
                   idx, current_document, results, invoked, returned>>
    /\ UNCHANGED tworunvars
    /\ UNCHANGED queryvars

NextStatus == DeriveStatus

SpecStatus == InitStatus /\ [][NextStatus]_vars

-----------------------------------------------------------------------------
(* get_pipeline on its own, over the stored configurations *)

InitPipeline ==
    /\ agent_impl = "agents"
    /\ pipeline_conf \in StoredConfs
    /\ documents = <<>>
    /\ pc = "read"
    /\ op = "none"
    /\ from_agent = NoAgent
    /\ pipeline = <<>>
    /\ idx = 0
    /\ current_document = NoneDocument
    /\ results = EmptyResults
    /\ invoked = <<>>
    /\ returned = <<>>
    /\ ret = <<>>
    /\ runs = NoRuns
    /\ events = NoEvents
    /\ QueriesIdle

\* self.get_pipeline(): the list it returns, or the exception
ReadPipeline ==
    /\ pc = "read"
    /\ IF GetPipelineRaises(pipeline_conf)
       THEN pc' = "raised" /\ pipeline' = <<>>
       ELSE pc' = "returned" /\ pipeline' = GetPipeline(pipeline_conf)
    /\ UNCHANGED <<agent_impl, pipeline_conf, documents, op, from_agent, idx,
                   current_document, results, invoked, returned, ret>>
    /\ UNCHANGED tworunvars
    /\ UNCHANGED queryvars

NextPipeline == ReadPipeline

SpecPipeline == InitPipeline /\ [][NextPipeline]_vars

-----------------------------------------------------------------------------
(* Two calls on the event loop, on two documents or on the same one, with the
   audit trail.  The pipeline is the default one; the workers are those of
   the sources. *)

\* a coroutine runs until it awaits: a call takes a step only while every
\* other call is at a suspension point
OthersSuspended(r) ==
    \A q \in RunIds \ {r} : runs[q].pc \in {"none", "scheduled", "awaiting", "done"}

AllSuspended == \A q \in RunIds : runs[q].pc \in {"none", "scheduled", "awaiting", "done"}

\* requests take the run ids in order
NextRun(r) == runs[r].pc = "none" /\ (r = "r2" => runs["r1"].pc # "none")

\* the list the calls iterate over
RunPipeline == GetPipeline(pipeline_conf)

InitRuns ==
    /\ agent_impl = "agents"
    /\ pipeline_conf = InitialConf
    /\ documents = <<>>
    /\ pc = "idle"
    /\ op = "none"
    /\ from_agent = NoAgent
    /\ pipeline = <<>>
    /\ idx = 0
    /\ current_document = NoneDocument
    /\ results = EmptyResults
    /\ invoked = <<>>
    /\ returned = <<>>
    /\ ret = <<>>
    /\ runs = NoRuns
    /\ events = NoEvents
    /\ QueriesIdle

singlevars == <<agent_impl, pipeline_conf, pc, op, from_agent, pipeline, idx,
                current_document, results, invoked, returned, ret>>

\* upload_document: create the record under a fresh id and queue the
\* background task
Upload(r, d) ==
    /\ NextRun(r)
    /\ AllSuspended
    /\ \A q \in RunIds : runs[q].doc # d
    /\ d # DocId => \E q \in RunIds : runs[q].doc = DocId
    /\ documents' = CreateDocument(documents, d)
    /\ runs' = [runs EXCEPT ![r] = [IdleRun EXCEPT !.pc = "scheduled", !.doc = d]]
    /\ UNCHANGED events
    /\ UNCHANGED singlevars
    /\ UNCHANGED queryvars

\* process_document_background, then process_document up to its loop
StartProcess(r) ==
    /\ runs[r].pc = "scheduled"
    /\ OthersSuspended(r)
    /\ runs' = IF HasDocument(documents, runs[r].doc)
               THEN [runs EXCEPT ![r].pc = "loop", ![r].op = "process", ![r].idx = 1,
                                 ![r].current_document = GetDocument(documents, runs[r].doc)]
               ELSE [runs EXCEPT ![r].pc = "done"]
    /\ UNCHANGED <<documents, events>>
    /\ UNCHANGED singlevars
    /\ UNCHANGED queryvars

\* the reprocess endpoint on a stored document, then reprocess_document up to
\* its loop
StartReprocess(r, d, fa) ==
    /\ NextRun(r)
    /\ AllSuspended
    /\ HasDocument(documents, d)
    /\ LET start_index == IF fa = NoAgent THEN 0 ELSE StartIndex(RunPipeline, fa)
           docs == UpdateStatus(documents, d, ResetStatus(start_index))
       IN /\ documents' = docs
          /\ runs' = [runs EXCEPT ![r] =
                        [IdleRun EXCEPT !.pc = "loop", !.op = "reprocess", !.doc = d,
                                        !.idx = start_index + 1,
                                        !.current_document = GetDocument(docs, d)]]
    /\ UNCHANGED events
    /\ UNCHANGED singlevars
    /\ UNCHANGED queryvars

\* delete_document (DELETE endpoint): the record and its events
DeleteStored(d) ==
    /\ AllSuspended
    /\ HasDocument(documents, d)
    /\ documents' = DeleteDocument(documents, d)
    /\ events' = DeleteEvents(events, d)
    /\ UNCHANGED runs
    /\ UNCHANGED singlevars
    /\ UNCHANGED queryvars

\* one iteration up to the worker's await: the worker logs "started",
\* validates its input and, when it rejects it, logs "failed", stores
\* "failed" and raises into the per-stage except
RunInvokes(r) ==
    /\ runs[r].pc = "loop"
    /\ OthersSuspended(r)
    /\ runs[r].idx <= Len(RunPipeline)
    /\ LET run == runs[r]
           step == RunPipeline[run.idx]
           started == LogEvent(events, run.doc, run.current_document, step.name, "started")
       IN \E fields_ok \in BOOLEAN :
            IF Accepts(agent_impl, step, run.current_document, fields_ok)
            THEN /\ runs' = [runs EXCEPT ![r].pc = "awaiting",
                                         ![r].invoked = Append(@, step.name)]
                 /\ events' = started
                 /\ UNCHANGED documents
            ELSE /\ runs' = [runs EXCEPT
                                ![r].pc = "finalize",
                                ![r].invoked = Append(@, step.name),
                                ![r].returned = Append(@, ErrorResult(InvalidDocument)),
                                ![r].results = Put(@, step.name, ErrorResult(InvalidDocument))]
                 /\ events' = LogEvent(started, run.doc, run.current_document,
                                       step.name, ClosingEvent(TRUE))
                 /\ documents' = IF run.current_document.present
                                 THEN UpdateStatus(documents, run.doc, "failed")
                                 ELSE documents
    /\ UNCHANGED singlevars
    /\ UNCHANGED queryvars

\* the worker resumes: it stores its status and logs "completed", or logs
\* "failed" and stores "failed" and raises; the call records the result,
\* decides whether to go on and re-fetches the document; the loop is over
\* on a break and after the last entry
RunReturns(r) ==
    /\ runs[r].pc = "awaiting"
    /\ OthersSuspended(r)
    /\ LET run == runs[r]
           name == RunPipeline[run.idx].name
       IN \E w \in WorkerRuns(name) :
            LET c == w.outcome
                result == IF c.raised THEN ErrorResult(c.error) ELSE c.result
                docs == UpdateStatus(documents, run.doc, c.writes)
                fetched == GetDocument(docs, run.doc)
                goes_on == ~c.raised /\ Continues(run.op, name, result)
            IN /\ documents' = docs
               /\ events' = LogEvent(events, run.doc, run.current_document, name,
                                     ClosingEvent(c.raised))
               /\ runs' = [runs EXCEPT
                     ![r].results = Put(@, name, result),
                     ![r].returned = Append(@, result),
                     ![r].routing = w.routing,
                     ![r].attempts = w.attempts,
                     ![r].current_document = IF goes_on THEN fetched ELSE @,
                     ![r].idx = IF goes_on /\ ~StopsOnMissing(run.op, fetched)
                                THEN @ + 1 ELSE @,
                     ![r].pc = IF goes_on /\ ~StopsOnMissing(run.op, fetched)
                                  /\ run.idx < Len(RunPipeline)
                               THEN "loop" ELSE "finalize"]
    /\ UNCHANGED singlevars
    /\ UNCHANGED queryvars

\* process_document_background (the caller of a process call) sends the
\* routing notification for a run that returned "routed"; the reprocess
\* endpoint sends none
Notifies(o, final_status) == o = "process" /\ final_status = "routed"

\* the call of send_routing_notification: the re-read document, the router's
\* result of the run, and whether the collaborator delivered or raised
Notification(doc, res, delivered) ==
    [snapshot |-> doc,
     router_result |-> IF "router" \in DOMAIN res THEN <<res["router"]>> ELSE <<>>,
     delivered |-> delivered]

\* after the loop: derive the final status, write it with the results, return;
\* the background task then notifies, with no suspension point in between
RunFinishes(r) ==
    /\ runs[r].pc = "finalize"
    /\ OthersSuspended(r)
    /\ LET run == runs[r]
           final_status == DetermineFinalStatus(run.results)
           docs == UpdateFinal(documents, run.doc, final_status, run.results)
       IN /\ documents' = docs
          /\ \E delivered \in BOOLEAN :
               runs' = [runs EXCEPT
                ![r].pc = "done",
                ![r].ret = << Aggregate(final_status, run.results) >>,
                ![r].order = 1 + Cardinality({q \in RunIds : runs[q].order > 0}),
                ![r].notified = IF Notifies(run.op, final_status)
                                THEN << Notification(GetDocument(docs, run.doc),
                                                     run.results, delivered) >>
                                ELSE <<>>]
    /\ UNCHANGED events
    /\ UNCHANGED singlevars
    /\ UNCHANGED queryvars

NextRuns ==
    \/ \E r \in RunIds, d \in DocIds : Upload(r, d)
    \/ \E r \in RunIds : StartProcess(r)
    \/ \E r \in RunIds, d \in DocIds, fa \in FromAgents : StartReprocess(r, d, fa)
    \/ \E d \in DocIds : DeleteStored(d)
    \/ \E r \in RunIds : RunInvokes(r)
    \/ \E r \in RunIds : RunReturns(r)
    \/ \E r \in RunIds : RunFinishes(r)

SpecRuns == InitRuns /\ [][NextRuns]_vars

-----------------------------------------------------------------------------
(* get_pipeline_statistics on its own, over stores of up to MaxDocs documents *)

AllIds == <<DocId, "D2", "D3", "D4">>

StoreIds == {AllIds[i] : i \in 1..MaxDocs}

\* the statistics read the status of a record only
Stores ==
    UNION { [ids -> {[status |-> st, has_results |-> FALSE, agent_results |-> EmptyResults] :
                        st \in CanonicalStatuses}] : ids \in SUBSET StoreIds }

\* a float as the quotient it stands for
Ratio(num, den) == [num |-> num, den |-> den]

\* status_counts: a key for every status some document has
StatusCounts(docs) ==
    [st \in {docs[d].status : d \in DOMAIN docs} |->
        Cardinality({d \in DOMAIN docs : docs[d].status = st})]

\* sum(status_counts.values())
RECURSIVE SumCounts(_)
SumCounts(counts) ==
    IF DOMAIN counts = {} THEN 0
    ELSE LET st == CHOOSE x \in DOMAIN counts : TRUE
         IN counts[st] + SumCounts([x \in (DOMAIN counts) \ {st} |-> counts[x]])

\* status_counts.get(status, 0)
CountOf(counts, st) == IF st \in DOMAIN counts THEN counts[st] ELSE 0

\* faulty variant: the statuses for which an aggregate reports success
CalculateSuccessRate_AggregateList(counts) ==
    LET total == SumCounts(counts)
    IN IF total = 0 THEN Ratio(0, 1)
       ELSE Ratio((CountOf(counts, "routed") + CountOf(counts, "completed")
                     + CountOf(counts, "needs_review")) * 100, total)

\* _calculate_success_rate: (successful_count / total) * 100
CalculateSuccessRate(counts) ==
    LET total == SumCounts(counts)
    IN IF total = 0 THEN Ratio(0, 1)
       ELSE Ratio((CountOf(counts, "routed") + CountOf(counts, "completed")
                     + CountOf(counts, "classified")) * 100, total)

\* get_pipeline_statistics, as far as the status is concerned
GetPipelineStatistics(docs) ==
    [error |-> NoError,
     total_documents |-> Cardinality(DOMAIN docs),
     status_distribution |-> StatusCounts(docs),
     success_rate |-> CalculateSuccessRate(StatusCounts(docs))]

InitStatistics ==
    /\ agent_impl = "agents"
    /\ pipeline_conf = InitialConf
    /\ documents \in Stores
    /\ pc = "query"
    /\ op = "none"
    /\ from_agent = NoAgent
    /\ pipeline = <<>>
    /\ idx = 0
    /\ current_document = NoneDocument
    /\ results = EmptyResults
    /\ invoked = <<>>
    /\ returned = <<>>
    /\ ret = <<>>
    /\ runs = NoRuns
    /\ events = NoEvents
    /\ QueriesIdle

ReadStatistics ==
    /\ pc = "query"
    /\ stats' = << GetPipelineStatistics(documents) >>
    /\ pc' = "answered"
    /\ UNCHANGED <<agent_impl, pipeline_conf, documents>>
    /\ UNCHANGED runvars
    /\ UNCHANGED tworunvars
    /\ UNCHANGED <<status_reply, logfile, threads>>

NextStatistics == ReadStatistics

SpecStatistics == InitStatistics /\ [][NextStatistics]_vars

-----------------------------------------------------------------------------
(* _determine_final_status called twice on equal dicts: the second dict was
   built in another insertion order and the store has changed in between *)

\* the fields of a result the derivation reads: status for every stage,
\* needs_review of the classifier, routing_success of the router
DerivedResults(name) ==
    { Result(st, NoAgent, nr, rs, NoError) :
        st \in ResultStatuses,
        nr \in IF name = "classifier" THEN BOOLEAN ELSE {FALSE},
        rs \in IF name = "router" THEN BOOLEAN ELSE {FALSE} }

DerivedMaps ==
    UNION { {m \in [names -> StageResults] : \A n \in names : m[n] \in DerivedResults(n)} :
              names \in SUBSET AgentNames }

\* the insertion orders of a dict with the keys
Orders(names) ==
    {o \in [1..Cardinality(names) -> names] : \A i, j \in DOMAIN o : o[i] = o[j] => i = j}

\* faulty variant: only the entry inserted first is looked at
ErrorSeen_FirstOnly(order, res) == order # <<>> /\ res[order[1]].status = "error"

\* the for loop over results.items(), in insertion order
RECURSIVE ErrorSeen(_, _)
ErrorSeen(order, res) ==
    IF order = <<>> THEN FALSE
    ELSE IF res[Head(order)].status = "error" THEN TRUE
    ELSE ErrorSeen(Tail(order), res)

\* _determine_final_status on a dict with its insertion order: the loop, then
\* the chain of lookups by key
DetermineFinalStatusInOrder(order, res) ==
    IF order = <<>> THEN "failed"
    ELSE IF ErrorSeen(order, res) THEN "failed"
    ELSE IF HasSuccess(res, "router")
         THEN IF res["router"].routing_success THEN "routed" ELSE "routing_failed"
    ELSE IF HasSuccess(res, "classifier")
         THEN IF res["classifier"].needs_review THEN "needs_review" ELSE "classified"
    ELSE IF HasSuccess(res, "extractor") THEN "extracted"
    ELSE IF HasSuccess(res, "ingestor") THEN "ingested"
    ELSE "failed"

\* the stores the calls are made over
PurityStores == {<<>>, CreateDocument(<<>>, DocId)}

InitPurity ==
    /\ agent_impl = "doubles"
    /\ pipeline_conf = InitialConf
    /\ documents \in PurityStores
    /\ pc = "first"
    /\ op = "none"
    /\ from_agent = NoAgent
    /\ pipeline = <<>>
    /\ idx = 0
    /\ current_document = NoneDocument
    /\ results \in DerivedMaps
    /\ invoked \in Orders(DOMAIN results)
    /\ returned = <<>>
    /\ ret = <<>>
    /\ runs = NoRuns
    /\ events = NoEvents
    /\ QueriesIdle

\* one call; the first one notes the insertion order and the store it ran with
DeriveAgain ==
    /\ pc \in {"first", "second"}
    /\ ret' = Append(ret, DetermineFinalStatusInOrder(invoked, results))
    /\ returned' = IF pc = "first" THEN << [order |-> invoked, docs |-> documents] >>
                   ELSE returned
    /\ pc' = IF pc = "first" THEN "between" ELSE "derived"
    /\ UNCHANGED <<agent_impl, pipeline_conf, documents, op, from_agent, pipeline,
                   idx, current_document, results, invoked>>
    /\ UNCHANGED tworunvars
    /\ UNCHANGED queryvars

\* an equal dict is built in some insertion order and the store moves on
Rebuild ==
    /\ pc = "between"
    /\ invoked' \in Orders(DOMAIN results)
    /\ documents' \in PurityStores
    /\ pc' = "second"
    /\ UNCHANGED <<agent_impl, pipeline_conf, op, from_agent, pipeline,
                   idx, current_document, results, returned, ret>>
    /\ UNCHANGED tworunvars
    /\ UNCHANGED queryvars

NextPurity == DeriveAgain \/ Rebuild

SpecPurity == InitPurity /\ [][NextPurity]_vars

-----------------------------------------------------------------------------
(* get_processing_status on its own, over trails of up to MaxEvents events *)

\* an event with the time create_event stamped it with
TimedEvent(name, type, t) == [agent_name |-> name, event_type |-> type, created_at |-> t]

EventTypes == {"started", "completed", "failed"}

\* two appends may fall into the same microsecond
Instants == {1, 2}

\* the trails create_event can have built: the stamps do not decrease
Trails ==
    UNION { {tr \in [1..n -> {TimedEvent(a, ty, t) :
                                a \in AgentNames, ty \in EventTypes, t \in Instants}] :
                \A i \in 1..(n - 1) : tr[i].created_at <= tr[i + 1].created_at} :
            n \in 0..MaxEvents }

\* the events of one agent, in the order of the trail
RECURSIVE EventsOf(_, _)
EventsOf(trail, name) ==
    IF trail = <<>> THEN <<>>
    ELSE IF Head(trail).agent_name = name
         THEN <<Head(trail)>> \o EventsOf(Tail(trail), name)
         ELSE EventsOf(Tail(trail), name)

\* faulty variant: of the events with the greatest stamp, the first one
LatestEvent_FirstOfTies(agent_events) ==
    LET top == CHOOSE i \in DOMAIN agent_events :
                   /\ \A j \in DOMAIN agent_events :
                         agent_events[j].created_at <= agent_events[i].created_at
                   /\ \A j \in DOMAIN agent_events :
                         agent_events[j].created_at = agent_events[i].created_at => j >= i
    IN agent_events[top]

\* sorted(agent_events, key=created_at)[-1]: the sort is stable, so of the
\* events with the greatest stamp it is the one latest in the list
LatestEvent(agent_events) ==
    LET top == CHOOSE i \in DOMAIN agent_events :
                   /\ \A j \in DOMAIN agent_events :
                         agent_events[j].created_at <= agent_events[i].created_at
                   /\ \A j \in DOMAIN agent_events :
                         agent_events[j].created_at = agent_events[i].created_at => j <= i
    IN agent_events[top]

DocumentNotFound == "Document not found"

\* LocalStorage.get_document_status inside get_processing_status
GetProcessingStatus(docs, evts, id) ==
    IF ~HasDocument(docs, id)
    THEN [error |-> DocumentNotFound, current_status |-> "None",
          agent_statuses |-> <<>>, total_events |-> 0]
    ELSE [error |-> NoError,
          current_status |-> docs[id].status,
          agent_statuses |->
             [a \in {evts[id][i].agent_name : i \in DOMAIN evts[id]} |->
                 LET latest == LatestEvent(EventsOf(evts[id], a))
                 IN [event_type |-> latest.event_type, timestamp |-> latest.created_at]],
          total_events |-> Len(evts[id])]

InitStatusQuery ==
    /\ agent_impl = "agents"
    /\ pipeline_conf = InitialConf
    /\ documents \in {<<>>} \cup
          { UpdateStatus(CreateDocument(<<>>, DocId), DocId, st) :
               st \in {"uploaded", "classified", "failed"} }
    /\ pc = "query"
    /\ op = "none"
    /\ from_agent = NoAgent
    /\ pipeline = <<>>
    /\ idx = 0
    /\ current_document = NoneDocument
    /\ results = EmptyResults
    /\ invoked = <<>>
    /\ returned = <<>>
    /\ ret = <<>>
    /\ runs = NoRuns
    /\ \E tr \in Trails : events = [NoEvents EXCEPT ![DocId] = tr]
    /\ QueriesIdle

ReadStatus ==
    /\ pc = "query"
    /\ status_reply' = << GetProcessingStatus(documents, events, DocId) >>
    /\ pc' = "answered"
    /\ UNCHANGED <<agent_impl, pipeline_conf, documents>>
    /\ UNCHANGED runvars
    /\ UNCHANGED tworunvars
    /\ UNCHANGED <<stats, logfile, threads>>

NextStatusQuery == ReadStatus

SpecStatusQuery == InitStatusQuery /\ [][NextStatusQuery]_vars

-----------------------------------------------------------------------------
(* Appends to one log file (comments, assignments, notifications) from the
   threadpool: _load_json runs outside the lock, _save_json holds the lock
   around open(file, 'w') and json.dump.  Each thread appends one entry, its
   own number, under the same key. *)

ThreadIds == 1..MaxThreads

\* self.lock is held by the thread that is inside the with block
LockHeld == \E t \in ThreadIds : threads[t].pc = "writing"

InitThreads ==
    /\ agent_impl = "agents"
    /\ pipeline_conf = InitialConf
    /\ documents = <<>>
    /\ pc = "idle"
    /\ op = "none"
    /\ from_agent = NoAgent
    /\ pipeline = <<>>
    /\ idx = 0
    /\ current_document = NoneDocument
    /\ results = EmptyResults
    /\ invoked = <<>>
    /\ returned = <<>>
    /\ ret = <<>>
    /\ runs = NoRuns
    /\ events = NoEvents
    /\ stats = <<>>
    /\ status_reply = <<>>
    /\ logfile = <<>>
    /\ threads = [t \in ThreadIds |-> [pc |-> "load", local |-> <<>>]]

\* what the threads of the pool leave alone
nothreadvars == <<agent_impl, pipeline_conf, documents, pc, op, from_agent, pipeline,
                  idx, current_document, results, invoked, returned, ret, runs, events,
                  stats, status_reply>>

\* _load_json and setdefault(key, []).append(entry) on the loaded dict; a
\* file that another thread has truncated and not yet dumped to fails to
\* decode and is read as {}
LoadAndAppend(t) ==
    /\ threads[t].pc = "load"
    /\ threads' = [threads EXCEPT ![t] = [pc |-> "save", local |-> Append(logfile, t)]]
    /\ UNCHANGED logfile
    /\ UNCHANGED nothreadvars

\* _save_json: with self.lock, open(file, 'w') truncates the file
LockAndTruncate(t) ==
    /\ threads[t].pc = "save"
    /\ ~LockHeld
    /\ logfile' = <<>>
    /\ threads' = [threads EXCEPT ![t].pc = "writing"]
    /\ UNCHANGED nothreadvars

\* json.dump of the thread's dict, close, release of the lock, return
DumpAndRelease(t) ==
    /\ threads[t].pc = "writing"
    /\ logfile' = threads[t].local
    /\ threads' = [threads EXCEPT ![t].pc = "done"]
    /\ UNCHANGED nothreadvars

NextThreads ==
    \/ \E t \in ThreadIds : LoadAndAppend(t)
    \/ \E t \in ThreadIds : LockAndTruncate(t)
    \/ \E t \in ThreadIds : DumpAndRelease(t)

SpecThreads == InitThreads /\ [][NextThreads]_vars

-----------------------------------------------------------------------------
(* Properties *)

\* the loop of the call is over
LoopOver == pc \in {"finalize", "done"}

\* the call has returned its aggregate
Returned == pc = "done" /\ ret # <<>>

\* positions of the call's worker invocations that have produced a result
Produced == 1..Len(returned)

\* the except of the per-stage try built the result (a worker raised)
IsRaised(r) == r.status = "error" /\ r.error # NoError

StoredStatusIs(status) ==
    HasDocument(documents, DocId) => documents[DocId].status = status

\* every stage of the call returned success without a review flag, and the
\* router was among them and routed
AllSucceededAndRouted ==
    /\ \A i \in Produced : returned[i].status = "success" /\ ~returned[i].needs_review
    /\ \E i \in Produced : invoked[i] = "router"
    /\ \A i \in Produced : invoked[i] = "router" => returned[i].routing_success

\* C1: for every pipeline get_pipeline returns, a process run whose stages all
\* return success, none with a review flag, and whose router reports
\* routing_success ends with final status "routed", returned and (for a
\* document that is still in the store) stored.
C1_AllSuccessIsRouted ==
    (Returned /\ op = "process" /\ AllSucceededAndRouted)
        => /\ ret[1].final_status = "routed"
           /\ StoredStatusIs("routed")

\* C1 witness: the four workers of the default pipeline all succeeded and the
\* document was routed
C1_Witness ==
    /\ Returned /\ op = "process" /\ AllSucceededAndRouted
    /\ agent_impl = "agents"
    /\ invoked = <<"ingestor", "extractor", "classifier", "router">>
    /\ HasDocument(documents, DocId)
    /\ documents[DocId].status = "routed"

\* a classifier result that flags review
FlagsReview(i) ==
    /\ invoked[i] = "classifier"
    /\ returned[i].status = "success"
    /\ returned[i].needs_review

C3_RaiseEndsRunAsFailed ==
    \A i \in Produced : IsRaised(returned[i]) =>
        /\ i = Len(invoked)
        /\ LoopOver
        /\ results[invoked[i]].status = "error"
        /\ results[invoked[i]].error \in {InvalidDocument, ServiceError}
        /\ Returned =>
            /\ ret[1].final_status = "failed"
            /\ ~ret[1].success
            /\ ret[1].results[invoked[i]] = returned[i]

\* C3 witness: the third or a later stage of a run raised and the run returned
C3_Witness ==
    /\ Returned
    /\ Len(returned) >= 3
    /\ IsRaised(returned[Len(returned)])
    /\ \A i \in 1..(Len(returned) - 1) : returned[i].status = "success"

\* the router of the sources returned without routing the document
RouterDidNotRoute ==
    /\ agent_impl = "agents"
    /\ \E i \in Produced :
        /\ invoked[i] = "router"
        /\ ~IsRaised(returned[i])
        /\ ~returned[i].routing_success

\* C5: when the router is invoked and fails to route, the returned final
\* status and the stored status are "routing_failed".
C5_RoutingFailureIsRoutingFailed ==
    (Returned /\ RouterDidNotRoute)
        => /\ ret[1].final_status = "routing_failed"
           /\ StoredStatusIs("routing_failed")

C7_SuccessIffFinalStatus ==
    Returned =>
        (ret[1].success <=> ret[1].final_status \in {"routed", "completed", "needs_review"})

\* C7 witness: an aggregate with final status "classified", which is not a
\* success, after a run that stopped at the classifier
C7_Witness ==
    /\ Returned
    /\ ret[1].final_status = "classified"
    /\ ~ret[1].success

\* scenario D1: default pipeline, the document starts at "uploaded", ingestor
\* and extractor succeed and name their successors, the classifier succeeds
\* with needs_review false and no next agent
ScenarioD1 ==
    /\ Returned
    /\ op = "process"
    /\ pipeline = DefaultPipeline
    /\ Len(returned) >= 3
    /\ returned[1] = Result("success", "extractor", FALSE, FALSE, NoError)
    /\ returned[2] = Result("success", "classifier", FALSE, FALSE, NoError)
    /\ returned[3] = Result("success", NoAgent, FALSE, FALSE, NoError)

\* C8 as stated: in scenario D1 process stops at the classifier without
\* invoking the router and returns "classified" with success true.
C8_ScenarioD1Success ==
    ScenarioD1 =>
        /\ invoked = <<"ingestor", "extractor", "classifier">>
        /\ ret[1].final_status = "classified"
        /\ ret[1].success

\* C8 amended: in scenario D1 process stops at the classifier without invoking
\* the router and returns "classified" with success false.
C8_ScenarioD1NotSuccess ==
    ScenarioD1 =>
        /\ invoked = <<"ingestor", "extractor", "classifier">>
        /\ ret[1].final_status = "classified"
        /\ ~ret[1].success

\* C8 witness: scenario D1 has run and the document is stored as classified
C8_Witness ==
    /\ ScenarioD1
    /\ HasDocument(documents, DocId)
    /\ documents[DocId].status = "classified"

\* a success that names no next agent and is not a classifier review
EndsPipeline(i) ==
    /\ returned[i].status = "success"
    /\ returned[i].next_agent = NoAgent
    /\ ~(invoked[i] = "classifier" /\ returned[i].needs_review)

\* C9: in process, a success result without a next agent stops the loop (no
\* later worker is invoked), unless the stage is the classifier and
\* needs_review is set.
C9_NoNextAgentStopsLoop ==
    op = "process" =>
        \A i \in Produced : EndsPipeline(i) => (i = Len(invoked) /\ LoopOver)

\* C9 witness: a process run returned after a stage that was not the last
\* entry of its pipeline succeeded without a next agent
C9_Witness ==
    /\ Returned
    /\ op = "process"
    /\ \E i \in Produced : EndsPipeline(i) /\ i < Len(pipeline)

\* C10: in process and in reprocess, a result whose status is not "success" is
\* the last of the run: no later worker is invoked.
C10_FailureStopsLoop ==
    \A i \in Produced :
        returned[i].status # "success" => (i = Len(invoked) /\ LoopOver)

\* C10 witness: a reprocess run returned after a stage that was not the last
\* entry returned a non-success result that names a next agent
C10_Witness ==
    /\ Returned
    /\ op = "reprocess"
    /\ \E i \in Produced :
        /\ returned[i].status = "failed"
        /\ returned[i].next_agent # NoAgent
        /\ idx < Len(pipeline)

\* the derivation of the final status as the specification words it
ReferenceStatus(res) ==
    IF DOMAIN res = {} \/ \E n \in DOMAIN res : res[n].status = "error" THEN "failed"
    ELSE IF "router" \in DOMAIN res
         THEN IF res["router"].routing_success THEN "routed" ELSE "routing_failed"
    ELSE IF HasSuccess(res, "classifier")
         THEN IF res["classifier"].needs_review THEN "needs_review" ELSE "classified"
    ELSE IF HasSuccess(res, "extractor") THEN "extracted"
    ELSE IF HasSuccess(res, "ingestor") THEN "ingested"
    ELSE "failed"

\* C4: for every results map over the four stages, _determine_final_status
\* equals the reference derivation (router ran and routed: routed; router ran
\* and did not route: routing_failed; ...).
C4_FinalStatusIsReference ==
    pc = "derived" => ret[1].final_status = ReferenceStatus(results)

\* C11: in process, a mismatch between the snapshot's status and the status
\* the entry requires is not fatal: at every position of the loop the worker
\* of the entry is invoked, whatever the status; a worker that does not check
\* the status itself gets to run, and the loop ends at the invocation only
\* through the error the worker itself raised.
C11_MismatchIsNotFatal ==
    [][(op = "process" /\ pc = "loop" /\ idx <= Len(pipeline)) =>
          /\ invoked' = Append(invoked, pipeline[idx].name)
          /\ agent_impl = "doubles" => pc' = "awaiting"
          /\ pc' # "awaiting" =>
                /\ pc' = "finalize"
                /\ returned' = Append(returned, ErrorResult(InvalidDocument))
                /\ results'[pipeline[idx].name] = ErrorResult(InvalidDocument)]_vars

\* C11 witness: a worker of the sources runs on a document that is not in the
\* status its entry requires (the second of two ingestor entries)
C11_Witness ==
    /\ op = "process"
    /\ agent_impl = "agents"
    /\ pc = "awaiting"
    /\ pipeline[idx].name = "ingestor"
    /\ current_document.status = "ingested"
    /\ StatusMismatch(current_document, pipeline[idx])

\* C12: in process, a document that is absent from the store at the re-fetch
\* after a successful stage stops the loop: no further worker is invoked in
\* that run.
C12_MissingDocumentStopsLoop ==
    (op = "process" /\ ~current_document.present) =>
        /\ LoopOver
        /\ Len(invoked) = Len(returned)
        /\ idx <= Len(pipeline)
        /\ invoked[Len(invoked)] = pipeline[idx].name

\* C12 witness: the document was deleted while a worker of the sources was
\* awaiting; the worker succeeded and named a next agent, entries of the
\* pipeline were left, and the run returned without invoking them
C12_Witness ==
    /\ Returned
    /\ op = "process"
    /\ agent_impl = "agents"
    /\ ~current_document.present
    /\ returned[Len(returned)].status = "success"
    /\ returned[Len(returned)].next_agent # NoAgent
    /\ idx < Len(pipeline)

\* the call ran into an exception outside the per-stage try: get_pipeline
\* raised on the stored configuration
RaisedOutsideStages == op # "none" /\ GetPipelineRaises(pipeline_conf)

\* C13: process and reprocess never propagate an exception: every call that
\* ended has returned a value, and a call that met an exception outside the
\* per-stage boundary has invoked no worker and returned the envelope with
\* final status "failed", success false and no per-stage results.
C13_OuterExceptionReturnsEnvelope ==
    /\ (pc = "done" /\ op # "none") => Len(ret) = 1
    /\ RaisedOutsideStages =>
        /\ pc = "done"
        /\ invoked = <<>>
        /\ ret[1].final_status = "failed"
        /\ ~ret[1].success
        /\ ~ret[1].has_results
        /\ ret[1].results = EmptyResults

\* C13 witness: a reprocess call without from_agent returned the envelope; it
\* had reset the status before get_pipeline raised for its loop
C13_Witness ==
    /\ Returned
    /\ op = "reprocess"
    /\ from_agent = NoAgent
    /\ RaisedOutsideStages
    /\ ~ret[1].has_results
    /\ HasDocument(documents, DocId)

\* the stored record of the document has the status
StoredStatus(status) ==
    HasDocument(documents, DocId) /\ documents[DocId].status = status

\* a snapshot of a stored document with the status
Snapshot(status) == [present |-> TRUE, status |-> status]

\* reprocess(doc, "classifier") on the default pipeline
ReprocessFromClassifier ==
    /\ op = "reprocess"
    /\ from_agent = "classifier"
    /\ pipeline = DefaultPipeline

\* C14: on the default pipeline, reprocess(doc, "classifier") has stored status
\* "extracted" before any worker is invoked, whatever the status was before,
\* and the first worker invoked is the classifier, on a snapshot with status
\* "extracted".
C14_ReprocessFromClassifierResetsToExtracted ==
    ReprocessFromClassifier =>
        /\ invoked = <<>> =>
            /\ pc = "loop"
            /\ StoredStatus("extracted")
            /\ pipeline[idx].name = "classifier"
        /\ invoked # <<>> => invoked[1] = "classifier"
        /\ returned = <<>> => current_document = Snapshot("extracted")

\* C14 witness: the classifier of the sources is running in a reprocess of a
\* document that an earlier run had taken to the router
C14_Witness ==
    /\ ReprocessFromClassifier
    /\ agent_impl = "agents"
    /\ pc = "awaiting"
    /\ invoked = <<"classifier">>
    /\ StoredStatus("extracted")
    /\ "router" \in DOMAIN documents[DocId].agent_results

\* reprocess was called without from_agent, or with a name that no entry of
\* the active pipeline has
UnknownFromAgent ==
    /\ op = "reprocess"
    /\ ~GetPipelineRaises(pipeline_conf)
    /\ \/ from_agent = NoAgent
       \/ \A i \in 1..Len(pipeline) : pipeline[i].name # from_agent

\* C15: reprocess without from_agent, or with a name that is not in the active
\* pipeline, starts at index 0 and has stored status "uploaded" before the
\* first worker is invoked; the first worker invoked is that of the first
\* entry.
C15_UnknownFromAgentStartsAtZero ==
    UnknownFromAgent =>
        /\ (pc = "loop" /\ invoked = <<>>) =>
            /\ idx = 1
            /\ StoredStatus("uploaded")
            /\ current_document = Snapshot("uploaded")
        /\ invoked # <<>> => invoked[1] = pipeline[1].name

\* C15 witness: reprocess from "router" under a configured pipeline that has
\* no router entry, of a document that an earlier run had left with results:
\* the worker of the first entry is running, the stored status is "uploaded"
C15_Witness ==
    /\ UnknownFromAgent
    /\ from_agent = "router"
    /\ pc = "awaiting"
    /\ invoked = << pipeline[1].name >>
    /\ StoredStatus("uploaded")
    /\ documents[DocId].has_results

\* reprocess was called with the name of an entry of the active pipeline and
\* has not invoked a worker yet
ReprocessFromNamedStage ==
    /\ op = "reprocess"
    /\ pc = "loop"
    /\ invoked = <<>>
    /\ \E i \in 1..Len(pipeline) : pipeline[i].name = from_agent

\* C16: for every active pipeline, default or configured, reprocess from a
\* named stage starts at that stage and has reset the stored status to the
\* status the pipeline requires for that stage.
C16_ResetToRequiredStatusOfStage ==
    ReprocessFromNamedStage =>
        /\ pipeline[idx].name = from_agent
        /\ StoredStatus(pipeline[idx].status)

\* the loop ended at a stage that returned a result, with entries of the
\* pipeline possibly left
EndedAtStage ==
    /\ LoopOver
    /\ invoked # <<>>
    /\ Len(returned) = Len(invoked)
    /\ idx <= Len(pipeline)

\* the rules of the loop of process_document: it ends at a stage only when
\* that stage's result ends it (a classifier that flags review and names no
\* next agent does not) or the document is missing at the re-fetch, and it
\* never goes on with a missing document
ProcessLoopRules ==
    /\ EndedAtStage =>
        \/ ~ProcessContinues(invoked[Len(invoked)], returned[Len(returned)])
        \/ ~current_document.present
    /\ pc \in {"loop", "awaiting"} => current_document.present

\* C17: from every start index and for every sequence of stage outcomes, the
\* loop of reprocess follows the rules of the loop of process, including the
\* forced continuation after a classifier result with needs_review and no next
\* agent, and the stop on a document that is missing after the re-fetch.
C17_ReprocessLoopIsProcessLoop == op = "reprocess" => ProcessLoopRules

\* the stored configuration is a list with at least one step of a known name
YieldsKnownStage(conf) ==
    /\ conf.is_list
    /\ \E i \in 1..Len(conf.steps) : conf.steps[i].name \in AgentNames

\* C18: get_pipeline returns configured stages only for a well-formed
\* non-empty list of known stage names; for no configuration, a value that is
\* not a list, an empty list and a list that yields no known stage it returns
\* the default pipeline (ingestor, extractor, classifier, router with uploaded,
\* ingested, extracted, classified); the pipeline it returns is never empty.
C18_PipelineIsConfiguredOrDefault ==
    pc = "returned" =>
        /\ pipeline # <<>>
        /\ ~YieldsKnownStage(pipeline_conf) =>
              pipeline = << Step("ingestor", "uploaded"), Step("extractor", "ingested"),
                            Step("classifier", "extracted"), Step("router", "classified") >>

\* pl is made of exactly the steps with a known name, in the order of steps
IsKnownSubsequence(pl, steps) ==
    \E f \in [1..Len(pl) -> 1..Len(steps)] :
        /\ \A i, j \in 1..Len(pl) : i < j => f[i] < f[j]
        /\ \A i \in 1..Len(pl) : pl[i] = steps[f[i]]
        /\ \A k \in 1..Len(steps) :
              steps[k].name \in AgentNames <=> \E i \in 1..Len(pl) : f[i] = k

\* the configured list has a step with a known and a step with an unknown name
MixesKnownAndUnknown(conf) ==
    /\ YieldsKnownStage(conf)
    /\ \E i \in 1..Len(conf.steps) : conf.steps[i].name \notin AgentNames

\* C19: for a configured list that mixes known and unknown stage names,
\* get_pipeline returns exactly the entries with known names, in configured
\* order, each under the name that selects its worker; the unknown entries
\* are dropped and nothing is raised.
C19_UnknownStagesAreDropped ==
    (pc # "read" /\ MixesKnownAndUnknown(pipeline_conf)
                 /\ ~GetPipelineRaises(pipeline_conf)) =>
        /\ pc = "returned"
        /\ IsKnownSubsequence(pipeline, pipeline_conf.steps)
        /\ \A i \in 1..Len(pipeline) : pipeline[i].name \in AgentNames

\* C19 witness: the list router, archiver, ingestor gave router, ingestor
C19_Witness ==
    /\ pc = "returned"
    /\ Len(pipeline_conf.steps) = 3
    /\ pipeline_conf.steps[2].name = "archiver"
    /\ pipeline = << Step("router", "classified"), Step("ingestor", "uploaded") >>

\* C20: whenever process or reprocess has returned for a document that is in
\* the store (no other run on it is in flight), the stored status equals the
\* final status that was returned, for the failure envelope as well.
C20_StoredStatusIsReturnedStatus ==
    (Returned /\ HasDocument(documents, DocId)) =>
        documents[DocId].status = ret[1].final_status

\* C21: in every reachable state, after any sequence of create, process,
\* reprocess and worker writes, the status of every stored document is one of
\* uploaded, ingested, extracted, classified, needs_review, routed,
\* routing_failed, failed.
C21_StatusIsCanonical ==
    \A d \in DOMAIN documents : documents[d].status \in CanonicalStatuses

\* C21 witness: a reprocess has reset the status of a document that an earlier
\* run had finished, and a worker of the sources has written its own status
\* since
C21_Witness ==
    /\ op = "reprocess"
    /\ agent_impl = "agents"
    /\ pc = "loop"
    /\ Len(returned) = 1
    /\ HasDocument(documents, DocId)
    /\ documents[DocId].has_results
    /\ documents[DocId].status = "needs_review"

\* the place of a status in the progression uploaded, ingested, extracted,
\* classified|needs_review, routed|routing_failed; failed is reachable from
\* each of them and comes last
StatusRank(status) ==
    CASE status = "uploaded" -> 0
      [] status = "ingested" -> 1
      [] status = "extracted" -> 2
      [] status \in {"classified", "needs_review"} -> 3
      [] status \in {"routed", "routing_failed"} -> 4
      [] status = "failed" -> 5

\* C22: during a process run every write to the stored status, by a worker or
\* by the final update, moves it forward in the progression or leaves it in
\* place: the stored status never moves back to an earlier status.
C22_ProcessNeverMovesStatusBack ==
    [][(/\ op = "process" /\ op' = "process"
        /\ HasDocument(documents, DocId) /\ HasDocument(documents', DocId)) =>
          StatusRank(documents'[DocId].status) >= StatusRank(documents[DocId].status)]_vars

\* C23: after any sequence of process and reprocess runs the stored
\* agent_results keeps a result for every stage that has ever been invoked on
\* the document: no write removes the result of a stage, and the entry of a
\* stage that a run has invoked is that run's result once the run has
\* returned.
C23_AgentResultsKeepEarlierStages ==
    [][(HasDocument(documents, DocId) /\ HasDocument(documents', DocId)) =>
          /\ DOMAIN documents[DocId].agent_results
                \subseteq DOMAIN documents'[DocId].agent_results
          /\ (pc' = "done" /\ ret' # <<>> /\ ret'[1].has_results) =>
                \A n \in DOMAIN results' :
                    documents'[DocId].agent_results[n] = results'[n]]_vars

\* C24: within one process or reprocess run at most one worker invocation is
\* in flight, the stages are invoked in the order of the pipeline (as
\* consecutive entries), and a stage is invoked only after the invocation of
\* the previous stage has returned a success result.
C24_StagesRunOneAfterAnother ==
    /\ Len(returned) <= Len(invoked)
    /\ Len(invoked) <= Len(returned) + 1
    /\ Len(invoked) = Len(returned) + 1 <=> pc = "awaiting"
    /\ \E first \in 0..Len(pipeline) :
          \A i \in 1..Len(invoked) :
              /\ first + i <= Len(pipeline)
              /\ invoked[i] = pipeline[first + i].name
    /\ \A i \in 1..(Len(invoked) - 1) :
          /\ i <= Len(returned)
          /\ returned[i].status = "success"

\* C24 witness: in a reprocess from the extractor the third worker, the
\* router, is in flight after the extractor and the classifier returned
C24_Witness ==
    /\ op = "reprocess"
    /\ agent_impl = "agents"
    /\ pc = "awaiting"
    /\ invoked = <<"extractor", "classifier", "router">>
    /\ Len(returned) = 2

\* the status a worker of the sources stores before it returns the result
WrittenBy(name, result) ==
    CASE name = "ingestor" -> "ingested"
      [] name = "extractor" -> "extracted"
      [] name = "classifier" ->
            IF result.needs_review THEN "needs_review" ELSE "classified"
      [] name = "router" ->
            IF result.routing_success THEN "routed" ELSE "routing_failed"

\* C30: in a process run every stage after the first is invoked on the
\* document as re-fetched when the previous stage returned: the status it sees
\* is the status the previous stage wrote, not the status of the run's initial
\* snapshot (get_document after update_document returns the updated record).
C30_NextStageSeesPreviousWrite ==
    (/\ op = "process"
     /\ agent_impl = "agents"
     /\ pc \in {"loop", "awaiting"}
     /\ Len(returned) >= 1) =>
        /\ current_document =
              Snapshot(WrittenBy(invoked[Len(returned)], returned[Len(returned)]))
        /\ current_document.status # "uploaded"

\* C30 witness: the router of the sources is running on the snapshot that was
\* fetched after the classifier flagged the document for review
C30_Witness ==
    /\ op = "process"
    /\ agent_impl = "agents"
    /\ pc = "awaiting"
    /\ pipeline = DefaultPipeline
    /\ Len(invoked) = 4
    /\ current_document = Snapshot("needs_review")

\* the router invocations that ran their routing to the end
RoutedRuns == {r \in RunIds : runs[r].routing # <<>>}

\* C27: in one router invocation, a failed primary attempt with a different
\* fallback destination is followed by exactly one attempt against the
\* fallback, and only then may the result report failure; with a fallback equal
\* to the primary destination there is no second attempt; there are never more
\* than two attempts
C27_AtMostOneFallbackAttempt ==
    \A r \in RoutedRuns :
        LET primary_ok == runs[r].routing[1]
            fallback_differs == runs[r].routing[2]
            fallback_ok == runs[r].routing[3]
            result == runs[r].returned[Len(runs[r].returned)]
        IN /\ Len(runs[r].attempts) <= 2
           /\ runs[r].attempts[1] = "primary"
           /\ (~primary_ok /\ fallback_differs)
                => /\ runs[r].attempts = <<"primary", "fallback">>
                   /\ result.status = "failed" <=> ~fallback_ok
           /\ ~fallback_differs => runs[r].attempts = <<"primary">>
           /\ primary_ok => runs[r].attempts = <<"primary">> /\ result.status = "success"

\* a router invocation reached by a reprocess from the router, whose primary
\* attempt failed, whose fallback destination differed and failed as well
C27_Witness ==
    \E r \in RoutedRuns :
        /\ runs[r].op = "reprocess"
        /\ runs[r].invoked = <<"router">>
        /\ ~runs[r].routing[1] /\ runs[r].routing[2] /\ ~runs[r].routing[3]
        /\ runs[r].attempts = <<"primary", "fallback">>
        /\ runs[r].returned[1].status = "failed"

\* the workers of the sources
SourceWorkers == {"ingestor", "classifier", "router"}

\* call r enters a worker in this step
EntersWorker(r) == runs[r].pc = "loop" /\ Len(runs'[r].invoked) = Len(runs[r].invoked) + 1

\* call r gets a worker's result or exception in this step
LeavesWorker(r) == Len(runs'[r].returned) = Len(runs[r].returned) + 1

\* what the worker handed to the orchestrator in this step, and whether it
\* was an exception
LastReturned(r) == runs'[r].returned[Len(runs'[r].returned)]

\* C28: every invocation of the ingestor, the classifier or the router on an
\* existing document appends a 'started' event first and then exactly one
\* closing event before it returns or raises: 'completed' when it returns,
\* 'failed' when it raises
C28_StartedThenOneClosingEvent ==
    [][\A r \in RunIds :
        LET name == RunPipeline[runs[r].idx].name
            d == runs[r].doc
            closing == IF LastReturned(r).status = "error" THEN "failed" ELSE "completed"
        IN (runs[r].pc \in {"loop", "awaiting"} /\ runs[r].idx <= Len(RunPipeline)
              /\ name \in SourceWorkers /\ runs[r].current_document.present)
           => /\ (EntersWorker(r) /\ ~LeavesWorker(r))
                   => events'[d] = Append(events[d], Event(name, "started"))
              /\ (EntersWorker(r) /\ LeavesWorker(r))
                   => /\ LastReturned(r).status = "error"
                      /\ events'[d] = events[d] \o
                                       <<Event(name, "started"), Event(name, "failed")>>
              /\ (~EntersWorker(r) /\ LeavesWorker(r))
                   => events'[d] = Append(events[d], Event(name, closing))
    ]_vars

\* the classifier, entered by a reprocess, raised after its await: the trail
\* of the document is its 'started' and its 'failed' event
C28_Witness ==
    \E r \in RunIds :
        /\ runs[r].op = "reprocess"
        /\ runs[r].invoked = <<"classifier">>
        /\ Len(runs[r].returned) = 1
        /\ runs[r].returned[1].status = "error"
        /\ runs[r].returned[1].error = ServiceError
        /\ events[runs[r].doc] = <<Event("classifier", "started"), Event("classifier", "failed")>>

\* s is t or t with events appended
IsPrefix(s, t) == Len(s) <= Len(t) /\ SubSeq(t, 1, Len(s)) = s

\* delete_document removes the record of d in this step
DeleteStep(d) == HasDocument(documents, d) /\ ~HasDocument(documents', d)

\* C29: under every store operation other than delete_document the event list
\* of a document only grows by appending, its recorded events unchanged and in
\* order; delete_document of a stored document removes all of its events and
\* no event of another document
C29_EventsAppendOnlyUntilDelete ==
    [][\A d \in DocIds :
        IF DeleteStep(d)
        THEN /\ events'[d] = <<>>
             /\ \A e \in DocIds \ {d} : events'[e] = events[e]
        ELSE IsPrefix(events[d], events'[d])
    ]_vars

\* the first document was deleted while its ingestor was awaiting, which
\* removed the 'started' event; the events of the second document, appended
\* before, are all there
C29_Witness ==
    \E r, q \in RunIds :
        /\ runs[r].doc = DocId /\ runs[r].pc = "awaiting" /\ runs[r].invoked = <<"ingestor">>
        /\ ~HasDocument(documents, DocId)
        /\ events[DocId] = <<>>
        /\ runs[q].doc = "D2" /\ runs[q].pc = "done"
        /\ Len(events["D2"]) = 2 * Len(runs[q].invoked)
        /\ Len(events["D2"]) >= 2

\* the record of d as the store holds it, or None
Record(docs, d) == IF HasDocument(docs, d) THEN <<docs[d]>> ELSE <<>>

\* call r is the only call on its document
OnlyCallOn(r) == runs[r].doc # NoDoc /\ \A q \in RunIds \ {r} : runs[q].doc # runs[r].doc

\* what a process call alone leaves in the store and returns: during the call
\* the status its last stage wrote, after it the derived status with the
\* results of its stages, which are also the returned aggregate
AsIfAlone(r) ==
    LET run == runs[r]
        n == Len(run.returned)
    IN /\ (run.pc \in {"loop", "awaiting"} /\ n >= 1)
            => documents[run.doc].status = WrittenBy(run.invoked[n], run.returned[n])
       /\ (run.pc = "done" /\ run.op = "process")
            => /\ documents[run.doc] =
                    [status |-> DetermineFinalStatus(run.results), has_results |-> TRUE,
                     agent_results |-> run.results]
               /\ run.ret = << Aggregate(DetermineFinalStatus(run.results), run.results) >>
               /\ DOMAIN run.results = {run.invoked[i] : i \in 1..Len(run.invoked)}

ProcessCallsAsIfAlone ==
    \A r \in RunIds :
        (OnlyCallOn(r) /\ HasDocument(documents, runs[r].doc)) => AsIfAlone(r)

\* C25: concurrent process calls on distinct documents, interleaved at the
\* store operations and the workers' suspension points, leave for each
\* document the status, agent_results and aggregate of the same call alone; a
\* step of a call on one document changes no other document's record
C25_DistinctDocumentsDoNotInterfere ==
    [][/\ ProcessCallsAsIfAlone'
       /\ \A d \in DocIds :
            Record(documents', d) # Record(documents, d)
               => \/ DeleteStep(d) /\ runs' = runs
                  \/ \E r \in RunIds : runs'[r].doc = d /\ runs'[r] # runs[r]
    ]_vars

\* two uploads: the second call went through all four stages and finished
\* first, the first call failed in its ingestor after that; both records hold
\* what their own call derived
C25_Witness ==
    /\ runs["r1"].doc = DocId /\ runs["r2"].doc = "D2"
    /\ runs["r1"].pc = "done" /\ runs["r2"].pc = "done"
    /\ runs["r2"].order = 1 /\ runs["r1"].order = 2
    /\ runs["r2"].invoked = <<"ingestor", "extractor", "classifier", "router">>
    /\ HasDocument(documents, "D2") /\ documents["D2"].status = "routed"
    /\ runs["r1"].invoked = <<"ingestor">>
    /\ HasDocument(documents, DocId) /\ documents[DocId].status = "failed"
    /\ Len(events[DocId]) = 2 /\ Len(events["D2"]) = 8

\* both calls ran to their final update on the same stored document, and the
\* final update of r was the later one
FinishedLastOfTwo(r, q) ==
    /\ r # q
    /\ runs[r].doc = runs[q].doc
    /\ runs[r].pc = "done" /\ runs[q].pc = "done"
    /\ runs[q].order > 0
    /\ runs[r].order > runs[q].order
    /\ HasDocument(documents, runs[r].doc)

\* C26: a process and a reprocess call on the same document id were
\* interleaved and both have returned: the stored status and agent_results are
\* together those of the final update that happened last, never a mix of the
\* two final updates
C26_LastFinalUpdateWins ==
    \A r, q \in RunIds :
        FinishedLastOfTwo(r, q)
            => documents[runs[r].doc] =
                  [status |-> DetermineFinalStatus(runs[r].results), has_results |-> TRUE,
                   agent_results |-> runs[r].results]

\* the upload's call was awaiting its ingestor when a reprocess from the
\* router started, routed the document and finished; then the ingestor raised
\* and the upload's call finished last: the record is the one of that call
C26_Witness ==
    /\ FinishedLastOfTwo("r1", "r2")
    /\ runs["r1"].op = "process" /\ runs["r2"].op = "reprocess"
    /\ events[DocId] = << Event("ingestor", "started"), Event("router", "started"),
                          Event("router", "completed"), Event("ingestor", "failed") >>
    /\ runs["r2"].ret[1].final_status = "routed"
    /\ documents[DocId].status = "failed"
    /\ DOMAIN documents[DocId].agent_results = {"ingestor"}

\* C31: every process and reprocess call returns an aggregate, after invoking
\* at most as many stage workers as the pipeline has entries and after exactly
\* one final status update (the aggregate is returned by the statement that
\* follows the final update; the failure envelope is returned without one)
C31_ReturnsAggregateAfterOneFinalUpdate ==
    /\ Len(invoked) <= Len(pipeline)
    /\ Returned => ret[1].has_results

\* the documents of the store whose status counts as a success in the rate
CountedSuccessful ==
    {d \in DOMAIN documents : documents[d].status \in {"routed", "completed", "classified"}}

\* C32: the statistics over a store without documents have success rate 0.0
\* and no error; over a non-empty store the success rate is 100 times the
\* number of documents with status routed, completed or classified divided by
\* the number of documents, and the counts of the status distribution sum to
\* the number of documents
C32_SuccessRateOverTheStore ==
    stats # <<>> =>
        LET n == Cardinality(DOMAIN documents)
            rate == stats[1].success_rate
        IN /\ stats[1].error = NoError
           /\ stats[1].total_documents = n
           /\ SumCounts(stats[1].status_distribution) = n
           /\ rate.den > 0
           /\ n = 0 => rate.num = 0
           /\ n > 0 => rate.num * n = 100 * Cardinality(CountedSuccessful) * rate.den

\* the statistics over three documents, one routed, one classified and one
\* that needs review: two of three count, the rate is 200/3
C32_Witness ==
    /\ stats # <<>>
    /\ Cardinality(DOMAIN documents) = 3
    /\ {documents[d].status : d \in DOMAIN documents} = {"routed", "classified", "needs_review"}
    /\ stats[1].success_rate = Ratio(200, 3)

\* C33: _determine_final_status is a function of the results map alone: a
\* second call on an equal map returns the status of the first, whatever the
\* insertion order of the map and the state of the store at either call, and
\* no call changes the store or the map
C33_FinalStatusDependsOnResultsOnly ==
    [][Len(ret') > Len(ret)
         => /\ documents' = documents
            /\ results' = results
            /\ invoked' = invoked
            /\ \A i \in 1..Len(ret) : ret'[Len(ret')] = ret[i]
    ]_vars

\* both calls returned "failed" for a map of four entries: at the first call
\* its error entry was the first one inserted and a document was stored, at
\* the second call it was the last one and the store was empty
C33_Witness ==
    /\ pc = "derived"
    /\ ret = <<"failed", "failed">>
    /\ Len(invoked) = 4
    /\ results[returned[1].order[1]].status = "error"
    /\ results[invoked[4]].status = "error"
    /\ \A i \in 1..3 : results[invoked[i]].status = "success"
    /\ returned[1].docs # <<>> /\ documents = <<>>

\* the positions of the trail of the document at which the agent logged
LoggedAt(name) == {i \in DOMAIN events[DocId] : events[DocId][i].agent_name = name}

\* the event the agent appended most recently
LastAppended(name) ==
    events[DocId][CHOOSE i \in LoggedAt(name) : \A j \in LoggedAt(name) : j <= i]

\* C34: for a stored document get_processing_status returns the stored
\* status, for each agent that logged events on it the agent's most recently
\* appended event, and the number of events recorded for the document; for an
\* id that is not in the store it returns the error 'Document not found'
\* instead of a status
C34_StatusReplyIsLatestPerAgent ==
    status_reply # <<>> =>
        LET reply == status_reply[1]
        IN IF HasDocument(documents, DocId)
           THEN /\ reply.error = NoError
                /\ reply.current_status = documents[DocId].status
                /\ reply.total_events = Len(events[DocId])
                /\ DOMAIN reply.agent_statuses = {a \in AgentNames : LoggedAt(a) # {}}
                /\ \A a \in DOMAIN reply.agent_statuses :
                      /\ reply.agent_statuses[a].event_type = LastAppended(a).event_type
                      /\ reply.agent_statuses[a].timestamp = LastAppended(a).created_at
           ELSE /\ reply.error = DocumentNotFound
                /\ reply.agent_statuses = <<>>

\* the reply for a trail in which the ingestor's 'started' and 'failed' carry
\* the same stamp and the classifier logged in between: 'failed' is reported
C34_Witness ==
    /\ status_reply # <<>>
    /\ HasDocument(documents, DocId)
    /\ events[DocId] = << TimedEvent("ingestor", "started", 1),
                          TimedEvent("classifier", "started", 1),
                          TimedEvent("ingestor", "failed", 1) >>
    /\ status_reply[1].agent_statuses["ingestor"].event_type = "failed"
    /\ status_reply[1].total_events = 3

\* C35: when append operations on the same log file run in different threads,
\* every appended entry is in the file once all of them have returned
C35_NoAppendIsLost ==
    (\A t \in ThreadIds : threads[t].pc = "done")
        => \A t \in ThreadIds : \E i \in DOMAIN logfile : logfile[i] = t

\* the process calls of the background task that have returned their aggregate
NotifyingRuns == {r \in RunIds : runs[r].pc = "done" /\ runs[r].op = "process" /\ runs[r].order > 0}

\* C36: the background task sends the routing notification if and only if the
\* process call returned final status 'routed', after the final status and
\* results were written to the store, with the document read after that write
\* (the stored record, status 'routed') and the router's result of the run
C36_NotifiesRoutedFromStoredRecord ==
    \A r \in NotifyingRuns :
        /\ runs[r].notified # <<>> <=> runs[r].ret[1].final_status = "routed"
        /\ runs[r].notified # <<>> =>
              /\ runs[r].notified[1].snapshot.present
              /\ runs[r].notified[1].snapshot.status = "routed"
              /\ runs[r].notified[1].router_result = << runs[r].results["router"] >>

\* the calls made on the document
RunsOn(d) == {r \in RunIds : runs[r].doc = d}

\* a call was made on the stored document, no call on it is in flight and the
\* one that finished last returned the aggregate
AtRest(d) ==
    /\ HasDocument(documents, d)
    /\ RunsOn(d) # {}
    /\ \A r \in RunsOn(d) : runs[r].pc = "done"
    /\ \E r \in RunsOn(d) :
          /\ runs[r].order > 0
          /\ \A q \in RunsOn(d) : runs[q].order <= runs[r].order
          /\ runs[r].ret # <<>> /\ runs[r].ret[1].has_results

\* C37: whenever no call is in flight for a stored document and the last call
\* on it returned a normal aggregate, the stored status is what
\* _determine_final_status yields for the stored agent_results
C37_StoredStatusFollowsStoredResults ==
    \A d \in DocIds :
        AtRest(d) => /\ documents[d].has_results
                     /\ documents[d].status = DetermineFinalStatus(documents[d].agent_results)

\* after a process call that failed in the ingestor, a reprocess from the
\* router ended with a failed routing: the router had stored 'routing_failed',
\* the record is at rest with 'failed' and the router's result alone
C37_Witness ==
    /\ AtRest(DocId)
    /\ runs["r1"].op = "process" /\ runs["r2"].op = "reprocess"
    /\ runs["r2"].order = 2
    /\ runs["r2"].invoked = <<"router">>
    /\ DOMAIN documents[DocId].agent_results = {"router"}
    /\ documents[DocId].agent_results["router"].status = "failed"
    /\ documents[DocId].status = "failed"

\* the router was invoked in the call and did not route the document: it
\* raised, or its result has no routing_success
RoutingNotAchieved ==
    /\ \E i \in 1..Len(invoked) : invoked[i] = "router"
    /\ "router" \in DOMAIN results
    /\ ~results["router"].routing_success

\* C38: when the router was invoked in a call and did not route the document
\* successfully, the returned aggregate has success false, also when the
\* classifier had flagged needs_review before
C38_FailedRoutingIsNotASuccess ==
    (Returned /\ ret[1].has_results /\ RoutingNotAchieved) => ~ret[1].success

\* the stage invoked at position i is the one the result before it named, or
\* the router after a classifier that flagged review and named none
NamedByPrevious(i) ==
    \/ invoked[i] = returned[i - 1].next_agent
    \/ /\ invoked[i - 1] = "classifier"
       /\ returned[i - 1].needs_review
       /\ returned[i - 1].next_agent = NoAgent
       /\ invoked[i] = "router"

C40_EveryEventHasItsDocument ==
    \A d \in DocIds : events[d] # <<>> => HasDocument(documents, d)

=============================================================================
